---- MODULE Spec2Model ----
(***************************************************************************)
(* Model of drive_checker (src/main.py): the polling monitor of main(),    *)
(* the per-disk pipeline process_disk / process_ntfs_partition, the mount  *)
(* controller mount / is_mounted / unmount and the finalizer of __main__.  *)
(*                                                                         *)
(* Paths are sequences of tokens: a disk is <<"/dev/sdb">>, a partition is *)
(* <<"/dev/sdb", "1">> (device name, then one digit), the mount point is   *)
(* <<"/mnt/4">>.  A line of fdisk output is a sequence of tokens: its      *)
(* first word, the characters that follow it, a blank and the type text.   *)
(***************************************************************************)
EXTENDS Integers, Sequences, FiniteSets, TLC

\* ---------------------------------------------------------------- bounds
NumDisks == 2
MaxLines == 2
MaxParserLines == 2
TreeDepth == 3
MaxDepthArg == 2

\* ------------------------------------------------------------- constants
None == <<"None">>
MOUNT_POINT == <<"/mnt/4">>
EXCLUDED == <<"/dev/sdc">>
DiskNames == <<"/dev/sdc", "/dev/sdb", "/dev/sdd", "/dev/sde">>
Disks == {<<DiskNames[i]>> : i \in 1..NumDisks}
Digits == {"1", "2"}
\* a device that is not one of the monitored disks (e.g. the system disk)
FOREIGN == <<"/dev/sda", "1">>

\* ------------------------------------------------- fdisk output (lines)
NTFS_MARKERS == {"NTFS", "Microsoft basic data"}
\* a line: its first word, what follows it without a space (the digits of a
\* partition number, or something that is not a digit), the type column
Line(word, suffix, fs) == <<word>> \o suffix \o <<" ", fs>>
\* the lines fdisk -l <d> prints in the pipeline, one of each class: rows of
\* two partitions with either marker, a row of another type, a marked row
\* whose device name is not followed by a digit, a marked line of another prefix
PipelineLines(d) ==
    {Line(d[1], <<"1">>, "NTFS"),
     Line(d[1], <<"2">>, "Microsoft basic data"),
     Line(d[1], <<"1">>, "Linux filesystem"),
     Line(d[1], <<":">>, "NTFS"),
     Line("Device", <<"1">>, "NTFS")}
RECURSIVE SeqsUpTo(_, _)
SeqsUpTo(S, n) ==
    IF n = 0 THEN {<<>>}
    ELSE LET shorter == SeqsUpTo(S, n - 1)
         IN  shorter \cup {Append(s, x) : s \in {t \in shorter : Len(t) = n - 1}, x \in S}
Outputs(d) == SeqsUpTo(PipelineLines(d), MaxLines)

RECURSIVE Filter(_, _, _)
\* filter(lambda x: ..., seq) keeping the order; kind selects the lambda
Keep(kind, arg, x) ==
    IF kind = "startswith" THEN x[1] = arg[1]
    ELSE \E i \in 1..Len(x) : x[i] \in NTFS_MARKERS
Filter(kind, arg, seq) ==
    IF seq = <<>> THEN <<>>
    ELSE IF Keep(kind, arg, Head(seq))
         THEN <<Head(seq)>> \o Filter(kind, arg, Tail(seq))
         ELSE Filter(kind, arg, Tail(seq))

is_ntfs_partition(fdisk_line) == Keep("ntfs", None, fdisk_line)

\* re.match('(/dev/sd[a-z][0-9]).*', x): None unless a digit follows the
\* device name; group(1) is the device name and that ONE digit
ReMatch(x) ==
    IF Len(x) >= 2 /\ <<x[1]>> \in Disks /\ x[2] \in Digits
    THEN <<x[1], x[2]>> ELSE None

\* the rows of the output that start with the device path of d and carry
\* an NTFS or basic-data marker (their positions)
MarkedRows(d, output) ==
    {i \in 1..Len(output) :
        output[i][1] = d[1] /\ \E j \in 1..Len(output[i]) : output[i][j] \in NTFS_MARKERS}

\* value of the row count while no listing of the disk has been read
NoListing == -1

\* result of get_ntfs_partitions on the output lines: the tuple of paths,
\* or the exception raised by .group(1) on a failed match
get_ntfs_partitions(d, output) ==
    LET partitions == Filter("startswith", d, output)
        ntfs_parts == Filter("ntfs", None, partitions)
    IN  IF \E i \in 1..Len(ntfs_parts) : ReMatch(ntfs_parts[i]) = None
        THEN [exc |-> "AttributeError", paths |-> <<>>]
        ELSE [exc |-> "none",
              paths |-> [i \in 1..Len(ntfs_parts) |-> ReMatch(ntfs_parts[i])]]

\* ------------------------------------------------------ mount controller
\* the mount table: pairs <<device, mount point>>; /usr/bin/mount prints one
\* line "<device> on <mount point> <options>" per pair
ROOT == <<"/">>
SYSTEM_MOUNT == <<<<"/dev/sda", "2">>, ROOT>>
InitialTables == {{SYSTEM_MOUNT}, {SYSTEM_MOUNT, <<FOREIGN, MOUNT_POINT>>}}

\* which regex is_mounted builds from its arguments
RegexShape(part, dest) ==
    IF dest # None /\ part # None THEN "part on dest"
    ELSE IF part = None THEN "any on dest"
    ELSE IF dest # None THEN "part on any"
    ELSE "unbound"

\* re.match(regex, line) for a line of the mount listing
LineMatches(shape, part, dest, line) ==
    IF shape = "part on dest" THEN line[1] = part /\ line[2] = dest
    ELSE IF shape = "any on dest" THEN line[2] = dest
    ELSE IF shape = "part on any" THEN line[1] = part
    ELSE FALSE

is_mounted(part, dest, table) ==
    \E line \in table : LineMatches(RegexShape(part, dest), part, dest, line)

\* a call of is_mounted as Python runs it: the assert of line 93, then the
\* loop over the listing, which has at least one line (''.split gives
\* ['']): with only part given no branch assigns regex, and line 105 raises
is_mounted_call(part, dest, table) ==
    IF part = None /\ dest = None
    THEN [exc |-> "AssertionError", value |-> None]
    ELSE IF RegexShape(part, dest) = "unbound"
    THEN [exc |-> "UnboundLocalError", value |-> None]
    ELSE [exc |-> "none", value |-> is_mounted(part, dest, table)]

\* variant of MountBranch that calls the utility without the query
MountBranch_NoQuery(dest, table) == "utility"

\* first branch of mount(): ask the operator, or call the mount utility
MountBranch(dest, table) ==
    IF is_mounted(None, dest, table) THEN "ask" ELSE "utility"

\* effect of the mount utility on the table, by its outcome
UtilityOutcomes == {"ok", "fail", "fail_mounted"}
MountUtility(part, dest, table, outcome) ==
    IF outcome = "fail" THEN table ELSE table \cup {<<part, dest>>}

\* return value of mount() after the "already mounted, continue?" prompt
ConflictReturn(answer) == IF answer # "y" THEN "None" ELSE "None"

\* return value of mount() after the "do it manually?" prompt
ManualReturn(answer) == IF answer # "y" THEN "True" ELSE "None"

\* Python truth of a returned value
Truthy(v) == v = "True"

\* os.system("umount <target>"): the target is a device or a mount point
Umount(target, table, ok) ==
    IF ok THEN {m \in table : m[1] # target /\ m[2] # target} ELSE table

\* the argument process_disk gives to unmount after a partition
UnmountTarget(partition) == partition

\* variant of AfterMain with 'except KeyboardInterrupt' in place of 'finally'
AfterMain_ExceptInterrupt(e) == IF e = "KeyboardInterrupt" THEN "cleanup" ELSE "exited"

\* where control goes when main() ends with an exception: try/finally
AfterMain(e) == "cleanup"

\* variant of InitialSnapshot with set.discard in place of set.remove
InitialSnapshot_Discard(devs) == [exc |-> "none", disks |-> devs \ {EXCLUDED}]

\* lines 234-235: set.remove raises KeyError when /dev/sdc is not in the set
InitialSnapshot(devs) ==
    IF EXCLUDED \in devs THEN [exc |-> "none", disks |-> devs \ {EXCLUDED}]
    ELSE [exc |-> "KeyError", disks |-> devs]

\* variant of RemovedDisks that never reports a departure
RemovedDisks_None(known, current) == {}

\* variant of NewDisks that does not subtract the known set
NewDisks_NoDiff(current, known) == current

\* arrivals and departures of one tick
NewDisks(current, known) == current \ known
RemovedDisks(known, current) == known \ current

Answers == {"y", "n"}
PipelineExc == {"TimeoutExpired", "AttributeError", "FileNotFoundError"}

\* ------------------------------------------------------------------ state
VARIABLES pc, exc,
          original_disks, current_disks, new_disks, todo, removed_disks,
          disk, pd, partitions, idx,
          mounts,
          K0, passed, started, failedMount,
          conflict, utility, manual, mountRet, partRet, scanned,
          pipelineMounts, needUnmount, lastUnmount, umountRefused, cleanupUnmounts,
          ntfsRows, prev, firstPoll,
          fnIn, fnOut

monitorVars == <<original_disks, current_disks, new_disks, todo, removed_disks, K0, passed>>
diskVars == <<disk, pd, partitions, idx, started, failedMount>>
partVars == <<conflict, utility, manual, mountRet, partRet, scanned>>
mountVars == <<mounts, pipelineMounts>>
unmountVars == <<needUnmount, lastUnmount, umountRefused>>
fnVars == <<fnIn, fnOut>>
vars == <<pc, exc, monitorVars, diskVars, partVars, mountVars, unmountVars, cleanupUnmounts,
          ntfsRows, prev, firstPoll, fnVars>>

FreshPart ==
    /\ conflict' = "none"
    /\ utility' = "not_called"
    /\ manual' = "none"
    /\ mountRet' = "unset"
    /\ partRet' = "unset"
    /\ scanned' = FALSE

\* the result of a function that has not been applied yet
NotApplied == [exc |-> "unset"]

PipelineInit ==
    /\ pc = "start"
    /\ exc = "none"
    /\ original_disks = {}
    /\ current_disks = {}
    /\ new_disks = {}
    /\ todo = {}
    /\ removed_disks = {}
    /\ K0 = {}
    /\ passed = {}
    /\ disk = None
    /\ pd = "idle"
    /\ partitions = <<>>
    /\ idx = 0
    /\ started = <<>>
    /\ failedMount = {}
    /\ conflict = "none"
    /\ utility = "not_called"
    /\ manual = "none"
    /\ mountRet = "unset"
    /\ partRet = "unset"
    /\ scanned = FALSE
    /\ mounts \in InitialTables
    /\ pipelineMounts = {}
    /\ needUnmount = None
    /\ lastUnmount = None
    /\ umountRefused = FALSE
    /\ cleanupUnmounts = 0
    /\ ntfsRows = NoListing
    /\ prev = {}
    /\ firstPoll = TRUE

Init ==
    /\ PipelineInit
    /\ fnIn = [op |-> "none"]
    /\ fnOut = NotApplied

\* main() ends with exception e
Raise(e) ==
    /\ exc' = e
    /\ pc' = AfterMain(e)

\* ------------------------------------------------------------- main loop
\* main(), lines 234-236: the initial snapshot without /dev/sdc
Startup ==
    /\ pc = "start"
    /\ \E devs \in SUBSET Disks :
         /\ prev' = devs
         /\ IF InitialSnapshot(devs).exc = "none"
            THEN /\ original_disks' = InitialSnapshot(devs).disks
                 /\ pc' = "poll"
                 /\ exc' = exc
            ELSE /\ Raise(InitialSnapshot(devs).exc)
                 /\ original_disks' = original_disks
    /\ UNCHANGED <<current_disks, new_disks, todo, removed_disks, K0, passed>>
    /\ UNCHANGED <<diskVars, partVars, mountVars, unmountVars, cleanupUnmounts, fnVars, ntfsRows, firstPoll>>

\* lines 239-242: enumerate and diff
Poll ==
    /\ pc = "poll"
    /\ \E devs \in SUBSET Disks :
         /\ current_disks' = devs
         /\ new_disks' = NewDisks(devs, original_disks)
         /\ todo' = NewDisks(devs, original_disks)
    /\ K0' = original_disks
    /\ passed' = {}
    /\ removed_disks' = {}
    /\ pc' = IF todo' # {} THEN "next_disk" ELSE "removed"
    /\ UNCHANGED <<exc, original_disks>>
    /\ UNCHANGED <<diskVars, partVars, mountVars, unmountVars, cleanupUnmounts, fnVars, ntfsRows, prev, firstPoll>>

\* line 244: the for loop takes the next new disk and calls process_disk, or ends
NextDisk ==
    /\ pc = "next_disk"
    /\ IF todo = {}
       THEN /\ pc' = "removed"
            /\ disk' = None
            /\ pd' = "idle"
            /\ UNCHANGED <<todo, passed>>
       ELSE \E d \in todo :
              /\ todo' = todo \ {d}
              /\ passed' = passed \cup {d}
              /\ disk' = d
              /\ pd' = "running"
              /\ pc' = "fdisk"
    /\ partitions' = <<>>
    /\ idx' = 0
    /\ started' = <<>>
    /\ failedMount' = {}
    /\ umountRefused' = FALSE
    /\ lastUnmount' = None
    /\ ntfsRows' = NoListing
    /\ UNCHANGED <<exc, original_disks, current_disks, new_disks, removed_disks, K0>>
    /\ UNCHANGED <<partVars, mountVars, needUnmount, cleanupUnmounts, fnVars, prev, firstPoll>>

\* variant of ReturnFromDisk without original_disks.add(disk)
ReturnFromDisk_NoAdd ==
    /\ pd' = "returned"
    /\ original_disks' = original_disks
    /\ pc' = "next_disk"

\* process_disk returns normally; line 246 adds the disk to the known set
ReturnFromDisk ==
    /\ pd' = "returned"
    /\ original_disks' = original_disks \cup {disk}
    /\ pc' = "next_disk"

\* lines 249-252: departures
Removed ==
    /\ pc = "removed"
    /\ removed_disks' = RemovedDisks(original_disks, current_disks)
    /\ original_disks' = original_disks \ RemovedDisks(original_disks, current_disks)
    /\ pc' = "sleep"
    /\ UNCHANGED <<exc, current_disks, new_disks, todo, K0, passed>>
    /\ UNCHANGED <<diskVars, partVars, mountVars, unmountVars, cleanupUnmounts, fnVars, ntfsRows, prev, firstPoll>>

\* line 254; the locals of the finished tick are overwritten by the next one
Sleep ==
    /\ pc = "sleep"
    /\ pc' = "poll"
    /\ current_disks' = {}
    /\ new_disks' = {}
    /\ todo' = {}
    /\ removed_disks' = {}
    /\ K0' = {}
    /\ passed' = {}
    /\ prev' = current_disks
    /\ firstPoll' = FALSE
    /\ UNCHANGED <<exc, original_disks, diskVars, partVars, mountVars, unmountVars>>
    /\ UNCHANGED <<cleanupUnmounts, fnVars, ntfsRows>>

\* -------------------------------------------------------- disk pipeline
\* process_disk, lines 207-216: the serial is only logged; fdisk either
\* times out (subprocess.TimeoutExpired) or prints lines
GetPartitions ==
    /\ pc = "fdisk"
    /\ \/ /\ Raise("TimeoutExpired")
          /\ pd' = "raised"
          /\ UNCHANGED <<original_disks, partitions, idx, ntfsRows>>
       \/ \E output \in Outputs(disk) :
            LET r == get_ntfs_partitions(disk, output) IN
            /\ ntfsRows' = Cardinality(MarkedRows(disk, output))
            /\ IF r.exc # "none"
               THEN /\ Raise(r.exc)
                    /\ pd' = "raised"
                    /\ UNCHANGED <<original_disks, partitions, idx>>
               ELSE IF Len(r.paths) = 0
               THEN /\ ReturnFromDisk
                    /\ UNCHANGED <<exc, partitions, idx>>
               ELSE /\ partitions' = r.paths
                    /\ idx' = 1
                    /\ pc' = "mount"
                    /\ UNCHANGED <<exc, original_disks, pd>>
    /\ UNCHANGED <<current_disks, new_disks, todo, removed_disks, K0, passed>>
    /\ UNCHANGED <<disk, started, failedMount>>
    /\ UNCHANGED <<partVars, mountVars, unmountVars, cleanupUnmounts, fnVars, prev, firstPoll>>

\* process_ntfs_partition calls mount (lines 175, 112-119): the query of the
\* destination, then either the prompt or the mount utility
Mount ==
    /\ pc = "mount"
    /\ LET part == partitions[idx] IN
       /\ started' = Append(started, part)
       /\ needUnmount' = part
       /\ conflict' = "none"
       /\ manual' = "none"
       /\ partRet' = "unset"
       /\ scanned' = FALSE
       /\ IF MountBranch(MOUNT_POINT, mounts) = "ask"
          THEN /\ pc' = "ask_conflict"
               /\ utility' = "not_called"
               /\ mountRet' = "unset"
               /\ UNCHANGED <<mountVars, failedMount>>
          ELSE \E outcome \in UtilityOutcomes :
                 /\ utility' = outcome
                 /\ mounts' = MountUtility(part, MOUNT_POINT, mounts, outcome)
                 /\ pipelineMounts' = IF outcome = "fail" THEN pipelineMounts
                                      ELSE pipelineMounts \cup {<<part, MOUNT_POINT>>}
                 /\ IF outcome # "ok" /\ ~is_mounted(part, MOUNT_POINT, mounts')
                    THEN /\ pc' = "ask_manual"
                         /\ mountRet' = "unset"
                    ELSE /\ pc' = "scan"
                         /\ mountRet' = "None"
                 /\ UNCHANGED failedMount
    /\ UNCHANGED <<exc, monitorVars, disk, pd, partitions, idx>>
    /\ UNCHANGED <<lastUnmount, umountRefused, cleanupUnmounts, fnVars, ntfsRows, prev, firstPoll>>

\* the end of process_ntfs_partition's first line, by the value mount returned
AfterMount(ret) ==
    /\ mountRet' = ret
    /\ IF Truthy(ret)
       THEN /\ partRet' = "True"
            /\ pc' = "unmount"
       ELSE /\ partRet' = partRet
            /\ pc' = "scan"

\* lines 113-114: something is mounted at the destination, the operator answers
AskConflict ==
    /\ pc = "ask_conflict"
    /\ \E answer \in Answers :
         /\ conflict' = answer
         /\ AfterMount(ConflictReturn(answer))
         /\ failedMount' = IF answer = "y" THEN failedMount
                           ELSE failedMount \cup {partitions[idx]}
    /\ UNCHANGED <<exc, monitorVars, disk, pd, partitions, idx, started>>
    /\ UNCHANGED <<utility, manual, scanned, mountVars, unmountVars, cleanupUnmounts, fnVars, ntfsRows, prev, firstPoll>>

\* lines 121-128: the utility failed and the partition is not mounted; the
\* operator declines, or accepts and then mounts it by hand or does not
AskManual ==
    /\ pc = "ask_manual"
    /\ \E answer \in Answers, byHand \in BOOLEAN :
         /\ manual' = answer
         /\ mounts' = IF answer = "y" /\ byHand
                      THEN mounts \cup {<<partitions[idx], MOUNT_POINT>>} ELSE mounts
         /\ AfterMount(ManualReturn(answer))
    /\ failedMount' = IF is_mounted(partitions[idx], MOUNT_POINT, mounts')
                      THEN failedMount ELSE failedMount \cup {partitions[idx]}
    /\ UNCHANGED <<exc, monitorVars, disk, pd, partitions, idx, started>>
    /\ UNCHANGED <<conflict, utility, scanned, pipelineMounts, unmountVars, cleanupUnmounts, fnVars, ntfsRows, prev, firstPoll>>

\* lines 177-186: get_users lists <mount point>/Users, which raises
\* FileNotFoundError when the directory does not exist; then the counts
Scan ==
    /\ pc = "scan"
    /\ scanned' = TRUE
    /\ \E usersDir \in BOOLEAN :
         IF usersDir
         THEN /\ partRet' = "False"
              /\ pc' = "unmount"
              /\ UNCHANGED <<exc, pd>>
         ELSE /\ Raise("FileNotFoundError")
              /\ pd' = "raised"
              /\ UNCHANGED partRet
    /\ UNCHANGED <<monitorVars, disk, partitions, idx, started, failedMount>>
    /\ UNCHANGED <<conflict, utility, manual, mountRet, mountVars, unmountVars, cleanupUnmounts, fnVars, ntfsRows, prev, firstPoll>>

\* lines 218-220: the warning, unmount(partition), and the next partition
\* or the return of process_disk
Unmount ==
    /\ pc = "unmount"
    /\ \E ok \in BOOLEAN :
         /\ mounts' = Umount(UnmountTarget(partitions[idx]), mounts, ok)
         /\ pipelineMounts' = Umount(UnmountTarget(partitions[idx]), pipelineMounts, ok)
         /\ umountRefused' = (umountRefused \/ ~ok)
    /\ lastUnmount' = UnmountTarget(partitions[idx])
    /\ needUnmount' = None
    /\ FreshPart
    /\ IF idx < Len(partitions)
       THEN /\ idx' = idx + 1
            /\ pc' = "mount"
            /\ UNCHANGED <<original_disks, pd>>
       ELSE /\ ReturnFromDisk
            /\ idx' = idx
    /\ UNCHANGED <<exc, current_disks, new_disks, todo, removed_disks, K0, passed>>
    /\ UNCHANGED <<disk, partitions, started, failedMount, cleanupUnmounts, fnVars, ntfsRows, prev, firstPoll>>

\* ------------------------------------------------------------ shutdown
InMain == pc \notin {"cleanup", "exited"}

\* the process is interrupted (KeyboardInterrupt) anywhere in main(); the
\* frames of main and of the pipeline are unwound and their locals are gone
Interrupt ==
    /\ InMain
    /\ Raise("KeyboardInterrupt")
    /\ original_disks' = {}
    /\ current_disks' = {}
    /\ new_disks' = {}
    /\ todo' = {}
    /\ removed_disks' = {}
    /\ K0' = {}
    /\ passed' = {}
    /\ disk' = None
    /\ pd' = "idle"
    /\ partitions' = <<>>
    /\ idx' = 0
    /\ started' = <<>>
    /\ failedMount' = {}
    /\ FreshPart
    /\ needUnmount' = None
    /\ lastUnmount' = None
    /\ umountRefused' = FALSE
    /\ ntfsRows' = NoListing
    /\ prev' = {}
    /\ firstPoll' = TRUE
    /\ UNCHANGED <<mountVars, cleanupUnmounts, fnVars>>

\* __main__'s finally: cleanup() calls unmount(MOUNT_POINT)
Cleanup ==
    /\ pc = "cleanup"
    /\ \E ok \in BOOLEAN :
         /\ mounts' = Umount(MOUNT_POINT, mounts, ok)
         /\ pipelineMounts' = Umount(MOUNT_POINT, pipelineMounts, ok)
    /\ lastUnmount' = MOUNT_POINT
    /\ umountRefused' = umountRefused
    /\ cleanupUnmounts' = cleanupUnmounts + 1
    /\ pc' = "exited"
    /\ UNCHANGED <<exc, monitorVars, diskVars, partVars, needUnmount>>
    /\ UNCHANGED <<fnVars, ntfsRows, prev, firstPoll>>

Next ==
    \/ Startup
    \/ Poll
    \/ NextDisk
    \/ GetPartitions
    \/ Mount
    \/ AskConflict
    \/ AskManual
    \/ Scan
    \/ Unmount
    \/ Removed
    \/ Sleep
    \/ Interrupt
    \/ Cleanup

Spec == Init /\ [][Next]_vars

TypeOK ==
    /\ pc \in {"start", "poll", "next_disk", "fdisk", "mount", "ask_conflict",
               "ask_manual", "scan", "unmount", "removed", "sleep", "cleanup", "exited"}
    /\ original_disks \subseteq Disks
    /\ cleanupUnmounts \in 0..1

\* ================================================================ claims

\* C1: no exception raised by the partition-table call, by mount or by the
\* scan propagates out of process_disk (main never ends with one of them).
C1_NoPipelineException == exc \notin PipelineExc

\* C2: the excluded disk /dev/sdc is never passed to process_disk and is in
\* no arrived or departed set, on any tick.
C2_ExcludedNeverOffered ==
    /\ EXCLUDED \notin passed
    /\ EXCLUDED \notin new_disks
    /\ EXCLUDED \notin removed_disks

\* C3: in a tick with prior known set K0 and enumeration current_disks, the
\* disks passed to process_disk are among current - K0 while the tick runs
\* and exactly current - K0 at its end, the departed set is K0 - current, and
\* the known set at the end of the tick is (K0 + arrived) - departed.
C3_DiskSetDiffing ==
    /\ passed \subseteq current_disks \ K0
    /\ pc = "sleep" =>
         /\ passed = current_disks \ K0
         /\ new_disks = current_disks \ K0
         /\ removed_disks = K0 \ current_disks
         /\ original_disks = (K0 \cup (current_disks \ K0)) \ (K0 \ current_disks)

C3_Witness ==
    /\ pc = "sleep"
    /\ passed # {}
    /\ removed_disks # {}

\* C4: when the destination is occupied and the operator answers no, mount
\* reports failure, the partition is not scanned and process_partition
\* reports failure.
C4_RefusalSkipsPartition ==
    conflict = "n" => (mountRet = "True" /\ ~scanned /\ partRet = "True")

\* C5: when mount reports success for (p, d), is_mounted(p, d) evaluated
\* right after it is true.
C5_MountRoundTrip ==
    (pc = "scan" /\ mountRet = "None") =>
        is_mounted(partitions[idx], MOUNT_POINT, mounts)

\* C6: the mount utility is invoked only from a state in which nothing is
\* mounted at the destination; when something is mounted there the utility
\* is not invoked, the mount table is left alone and the operator is asked;
\* and the pipeline never has more than one mount at the mount point.
C6_UtilityStep ==
    pc = "mount" =>
        /\ utility' # "not_called" => ~is_mounted(None, MOUNT_POINT, mounts)
        /\ is_mounted(None, MOUNT_POINT, mounts) =>
             /\ utility' = "not_called"
             /\ mounts' = mounts
             /\ pc' \in {"ask_conflict", "cleanup"}
C6_NoDoubleMount ==
    /\ [](Cardinality({m \in pipelineMounts : m[2] = MOUNT_POINT}) <= 1)
    /\ [][C6_UtilityStep]_vars

C6_Witness ==
    /\ pc = "ask_conflict"
    /\ pipelineMounts # {}
    /\ utility = "not_called"

\* C7: when the mount of some partitions of a disk fails, process_disk has
\* still started process_partition on every partition, in listing order,
\* when it ends, and it ends by returning, not by raising.
C7_FailureIsolation ==
    (pd \in {"returned", "raised"} /\ failedMount # {}) =>
        (pd = "returned" /\ started = partitions)

\* C8: every partition on which process_partition was started has had its
\* unmount issued before the next partition is started and before
\* process_disk ends, by returning or by raising.
C8_UnmountAfterEveryPartition ==
    /\ pc = "mount" => needUnmount = None
    /\ pd \in {"returned", "raised"} => needUnmount = None

\* C9: the unmount issued after a partition targets the mount point, and
\* when process_disk returns after unmounts that the utility did not
\* refuse, nothing is mounted at the mount point.
C9_UnmountTargetsMountPoint ==
    /\ lastUnmount \in {None, MOUNT_POINT}
    /\ (pd = "returned" /\ partitions # <<>> /\ ~umountRefused /\ InMain) =>
           ~is_mounted(None, MOUNT_POINT, mounts)

\* C10: the cleanup unmount of the mount point is issued exactly once, after
\* main has ended, however main ended; never while main runs.
C10_CleanupOnce ==
    /\ pc = "exited" =>
         /\ cleanupUnmounts = 1
         /\ lastUnmount = MOUNT_POINT
         /\ exc # "none"
    /\ pc # "exited" => cleanupUnmounts = 0

C10_Witness ==
    /\ pc = "exited"
    /\ exc = "FileNotFoundError"
    /\ cleanupUnmounts = 1

\* C11: when the partition-table tool times out, process_disk mounts
\* nothing, the disk is absorbed into the known set and main goes on polling.
C11_TimeoutAbsorbed ==
    exc = "TimeoutExpired" =>
        /\ InMain
        /\ started = <<>>
        /\ disk \in original_disks

\* C18: get_users is called only while something is mounted at the mount
\* point; a partition that is still unmounted after the operator accepted to
\* mount it by hand is not scanned and is reported as failed.
C18_ScanOnlyWhenMounted ==
    /\ pc = "scan" => is_mounted(None, MOUNT_POINT, mounts)
    /\ (manual = "y" /\ ~is_mounted(partitions[idx], MOUNT_POINT, mounts)) =>
           (~scanned /\ pc # "scan" /\ partRet = "True")

\* C12: when the listing of an arrived disk has no row with an NTFS or
\* basic-data marker, process_disk returns normally without a mount, an
\* unmount or a scan, the disk enters the known set, and a disk of the known
\* set is not offered again and stays known while the polls see it present.
C12_Returned ==
    ntfsRows = 0 =>
        /\ pd = "returned" /\ exc \notin PipelineExc
        /\ partitions = <<>> /\ started = <<>>
        /\ utility = "not_called" /\ ~scanned
        /\ lastUnmount = None /\ needUnmount = None
        /\ disk \in original_disks
C12_Step ==
    /\ (pc = "fdisk" /\ ntfsRows' = 0) =>
          /\ pc' = "next_disk" /\ pd' = "returned" /\ exc' = "none"
          /\ mounts' = mounts
          /\ disk \in original_disks'
    /\ (pc = "poll" /\ pc' \in {"next_disk", "removed"}) =>
          \A d \in original_disks : d \notin new_disks'
    /\ pc' # "cleanup" =>
          \A d \in original_disks :
              d \in original_disks' \/ (pc = "removed" /\ d \notin current_disks)
C12_NoNtfsPartitions == [](C12_Returned) /\ [][C12_Step]_vars

C12_Witness ==
    /\ ntfsRows = 0
    /\ pc = "next_disk"
    /\ disk \in original_disks
    /\ disk # EXCLUDED

\* C19 as stated: at the end of a tick a disk other than /dev/sdc has been
\* passed to process_disk exactly when the poll saw it present and either no
\* earlier poll has run or the previous poll saw it absent.
InTick ==
    pc \in {"next_disk", "fdisk", "mount", "ask_conflict", "ask_manual",
            "scan", "unmount", "removed", "sleep"}
C19_OncePerAttachment ==
    pc = "sleep" =>
        \A d \in Disks \ {EXCLUDED} :
            d \in passed <=> (d \in current_disks /\ (firstPoll \/ d \notin prev))

\* C19 amended: in every tick a disk other than /dev/sdc is an arrival
\* exactly when the poll sees it present and the enumeration before it (the
\* one at startup for the first poll) did not; only arrivals are passed to
\* process_disk, none twice, and all of them by the end of the tick.
C19_OncePerObservedArrival ==
    InTick =>
        \A d \in Disks \ {EXCLUDED} :
            /\ d \in new_disks <=> (d \in current_disks /\ d \notin prev)
            /\ d \in passed => d \in new_disks
            /\ ~(d \in passed /\ d \in todo)
            /\ pc \in {"removed", "sleep"} => (d \in passed <=> d \in new_disks)

C19_Witness ==
    /\ pc = "sleep"
    /\ ~firstPoll
    /\ \E d \in Disks \ {EXCLUDED} : d \in passed /\ d \notin prev

\* C20: when the enumeration at startup lacks /dev/sdc, main ends with the
\* KeyError of the removal before any poll, process_disk is never called,
\* and the cleanup unmount of the mount point follows.
C20_Ended ==
    exc = "KeyError" =>
        /\ EXCLUDED \notin prev
        /\ pc \in {"cleanup", "exited"}
        /\ firstPoll /\ current_disks = {} /\ passed = {}
        /\ pd = "idle" /\ disk = None
        /\ pc = "cleanup" => ENABLED Cleanup
        /\ pc = "exited" => (cleanupUnmounts = 1 /\ lastUnmount = MOUNT_POINT)
C20_Step ==
    (pc = "start" /\ exc' # "KeyboardInterrupt" /\ EXCLUDED \notin prev') =>
        (exc' = "KeyError" /\ pc' = "cleanup")
C20_ExcludedAbsentAtStartup == [](C20_Ended) /\ [][C20_Step]_vars

C20_Witness ==
    /\ pc = "exited"
    /\ exc = "KeyError"
    /\ cleanupUnmounts = 1

\* ======================================================= pure functions
\* A second specification applies get_ntfs_partitions, is_mounted and
\* list_files / count_images to inputs drawn from bounded sets.

\* fdisk output for the parser: every first word, suffix and type
ParserLines(d) ==
    PipelineLines(d) \cup {Line(d[1], <<"1", "2">>, "Microsoft basic data"),
                           Line(FOREIGN[1], <<"1">>, "NTFS")}
ParserInputs ==
    UNION {{[op |-> "get_ntfs_partitions", disk |-> d, output |-> o] :
               o \in SeqsUpTo(ParserLines(d), MaxParserLines)} : d \in Disks}

\* mount listings and arguments for is_mounted
MountLines == {<<dev, mp>> : dev \in {<<"/dev/sdb", "1">>, FOREIGN}, mp \in {MOUNT_POINT, ROOT}}
MountedInputs ==
    {[op |-> "is_mounted", part |-> p, dest |-> d, table |-> t] :
        p \in {None, <<"/dev/sdb", "1">>, FOREIGN},
        d \in {None, MOUNT_POINT, ROOT},
        t \in SUBSET MountLines}

\* ---------------------------------------------- filesystem inventory
IMAGE_EXTENSIONS == {".png", ".jpg", ".jpeg", ".cr2"}
DEFAULT_MAX_DEPTH == 5
\* str.lower() on the suffixes that occur
LowerExt(ext) == IF ext = ".JPG" THEN ".jpg" ELSE ext

\* directory entries: a name is <<stem, suffix>>; a directory entry carries
\* its own entries and whether it is a symbolic link
FileJPG == [kind |-> "file", name |-> <<"a", ".JPG">>]
FileTXT == [kind |-> "file", name |-> <<"n", ".txt">>]
SubDir(l, t) == [kind |-> "dir", name |-> <<"d", "">>, link |-> l, entries |-> t]
\* the directories of at most k levels of subdirectories
RECURSIVE Dirs(_)
Dirs(k) ==
    LET files == {<<>>, <<FileJPG>>, <<FileJPG, FileTXT>>}
        subs == IF k = 0 THEN {<<>>}
                ELSE {<<>>} \cup {<<SubDir(l, t)>> : l \in BOOLEAN, t \in Dirs(k - 1)}
    IN  {f \o s : f \in files, s \in subs}

\* a Path with what iterdir() yields for it
Child(start_path, e) == [path |-> Append(start_path.path, e.name), entries |-> e.entries]
Max(a, b) == IF a >= b THEN a ELSE b

RECURSIVE list_files(_, _), list_from(_, _, _)

\* variant of list_files without the depth check
list_files_NoLimit(start_path, max_depth) == list_from(start_path, 1, max_depth)

\* list_files, lines 149-156: the files found, and how deep the recursive
\* calls below this call nest
list_files(start_path, max_depth) ==
    IF max_depth < 0 THEN [files |-> <<>>, nested |-> 0]
    ELSE list_from(start_path, 1, max_depth)

\* variant of the loop body that also descends into symbolic links
list_from_FollowLinks(start_path, i, max_depth) ==
    IF i > Len(start_path.entries) THEN [files |-> <<>>, nested |-> 0]
    ELSE LET e == start_path.entries[i]
             rest == list_from(start_path, i + 1, max_depth)
         IN  IF e.kind = "file"
             THEN [files |-> <<Append(start_path.path, e.name)>> \o rest.files,
                   nested |-> rest.nested]
             ELSE LET sub == list_files(Child(start_path, e), max_depth - 1)
                  IN  [files |-> sub.files \o rest.files,
                       nested |-> Max(1 + sub.nested, rest.nested)]

\* the for loop of lines 152-155 from entry i on
list_from(start_path, i, max_depth) ==
    IF i > Len(start_path.entries) THEN [files |-> <<>>, nested |-> 0]
    ELSE LET e == start_path.entries[i]
             rest == list_from(start_path, i + 1, max_depth)
         IN  IF e.kind = "file"
             THEN [files |-> <<Append(start_path.path, e.name)>> \o rest.files,
                   nested |-> rest.nested]
             ELSE IF e.kind = "dir" /\ ~e.link
             THEN LET sub == list_files(Child(start_path, e), max_depth - 1)
                  IN  [files |-> sub.files \o rest.files,
                       nested |-> Max(1 + sub.nested, rest.nested)]
             ELSE rest

\* count_images, lines 159-168
count_images(user_dir) ==
    LET files == list_files(user_dir, DEFAULT_MAX_DEPTH).files
    IN  Cardinality({i \in 1..Len(files) :
                        LowerExt(files[i][Len(files[i])][2]) \in IMAGE_EXTENSIONS})

TreeInputs ==
    {[op |-> "list_files", start_path |-> [path |-> <<>>, entries |-> t], max_depth |-> d] :
        t \in Dirs(TreeDepth), d \in -1..MaxDepthArg}

FnInputs == ParserInputs \cup MountedInputs \cup TreeInputs

FnInit ==
    /\ PipelineInit
    /\ mounts = {SYSTEM_MOUNT}
    /\ fnIn \in FnInputs
    /\ fnOut = NotApplied

pipelineVars ==
    <<pc, exc, monitorVars, diskVars, partVars, mountVars, unmountVars,
      cleanupUnmounts, ntfsRows, prev, firstPoll>>

ApplyParser ==
    /\ fnIn.op = "get_ntfs_partitions"
    /\ fnOut = NotApplied
    /\ fnOut' = get_ntfs_partitions(fnIn.disk, fnIn.output)
    /\ UNCHANGED <<fnIn, pipelineVars>>

ApplyIsMounted ==
    /\ fnIn.op = "is_mounted"
    /\ fnOut = NotApplied
    /\ fnOut' = is_mounted_call(fnIn.part, fnIn.dest, fnIn.table)
    /\ UNCHANGED <<fnIn, pipelineVars>>

ApplyListFiles ==
    /\ fnIn.op = "list_files"
    /\ fnOut = NotApplied
    /\ fnOut' = [exc |-> "none",
                 files |-> list_files(fnIn.start_path, fnIn.max_depth).files,
                 nested |-> list_files(fnIn.start_path, fnIn.max_depth).nested,
                 images |-> count_images(fnIn.start_path)]
    /\ UNCHANGED <<fnIn, pipelineVars>>

FnNext ==
    \/ ApplyParser
    \/ ApplyIsMounted
    \/ ApplyListFiles

FnSpec == FnInit /\ [][FnNext]_vars

\* the partition device a row names: its first word and the digits after it
RECURSIVE LeadingDigits(_)
LeadingDigits(rest) ==
    IF rest # <<>> /\ Head(rest) \in Digits
    THEN <<Head(rest)>> \o LeadingDigits(Tail(rest)) ELSE <<>>
NamedPartition(line) == <<line[1]>> \o LeadingDigits(Tail(line))
\* the marked rows of an output, in order
RECURSIVE RowsIn(_, _, _)
RowsIn(d, output, i) ==
    IF i > Len(output) THEN <<>>
    ELSE IF i \in MarkedRows(d, output)
         THEN <<output[i]>> \o RowsIn(d, output, i + 1)
         ELSE RowsIn(d, output, i + 1)
Parsed == fnIn.op = "get_ntfs_partitions" /\ fnOut.exc # "unset"
NamesPartition(line) == LeadingDigits(Tail(line)) # <<>>

\* C13: get_ntfs_partitions returns, in input order, exactly the partition
\* devices named by the rows prefixed by the device path and carrying a
\* marker, whatever the number of digits (rows that name a partition).
C13_ParserExact ==
    LET rows == RowsIn(fnIn.disk, fnIn.output, 1) IN
    (Parsed /\ \A i \in 1..Len(rows) : NamesPartition(rows[i])) =>
        /\ fnOut.exc = "none"
        /\ fnOut.paths = [i \in 1..Len(rows) |-> NamedPartition(rows[i])]

\* C14: a marked row of the device whose device name is not followed by a
\* digit is skipped: the parse does not fail and returns the partitions of
\* the other marked rows.
C14_UnparseableSkipped ==
    LET rows == RowsIn(fnIn.disk, fnIn.output, 1)
        good == {i \in 1..Len(rows) : NamesPartition(rows[i])}
    IN  (Parsed /\ good # 1..Len(rows)) =>
            /\ fnOut.exc = "none"
            /\ Len(fnOut.paths) = Cardinality(good)
            /\ \A k \in 1..Len(fnOut.paths) :
                 \E i \in good : fnOut.paths[k][1] = rows[i][1] /\ fnOut.paths[k][2] = rows[i][2]

\* C15: with at least one of part and dest given, is_mounted does not raise
\* and returns whether some line of the listing has the given device (when
\* given) and the given mount point (when given).
C15_IsMountedShapes ==
    (fnIn.op = "is_mounted" /\ fnOut.exc # "unset" /\ (fnIn.part # None \/ fnIn.dest # None)) =>
        /\ fnOut.exc = "none"
        /\ fnOut.value = (\E line \in fnIn.table :
                             /\ fnIn.part # None => line[1] = fnIn.part
                             /\ fnIn.dest # None => line[2] = fnIn.dest)

\* every file under a directory, with the number of directories between
\* the start and the file and whether one of them is a symbolic link
RECURSIVE FilesUnder(_, _, _, _)
FilesUnder(entries, path, level, linked) ==
    UNION {IF entries[i].kind = "file"
           THEN {[path |-> Append(path, entries[i].name), level |-> level, linked |-> linked]}
           ELSE FilesUnder(entries[i].entries, Append(path, entries[i].name),
                           level + 1, linked \/ entries[i].link) :
           i \in 1..Len(entries)}
AllFiles == FilesUnder(fnIn.start_path.entries, <<>>, 0, FALSE)
Listed == fnIn.op = "list_files" /\ fnOut.exc # "unset"
ListedPaths == {fnOut.files[i] : i \in 1..Len(fnOut.files)}

\* C16 as stated: a call with depth counter zero returns nothing, no file of
\* a directory nested max_depth or more levels below the start is listed,
\* and the recursive calls nest at most max_depth deep.
C16_TruncateAtZero ==
    (Listed /\ fnIn.max_depth >= 0) =>
        /\ fnIn.max_depth = 0 => fnOut.files = <<>>
        /\ \A r \in AllFiles : r.path \in ListedPaths => r.level < fnIn.max_depth
        /\ fnOut.nested <= fnIn.max_depth

\* C16 amended: a call with a negative depth counter returns nothing; with a
\* counter max_depth >= 0 the result is, once each, the files of the start
\* directory and of the directories nested at most max_depth levels below
\* it through no symbolic link, and the recursive calls nest at most
\* max_depth + 1 deep.
C16_TruncateBelowZero ==
    Listed =>
        /\ fnIn.max_depth < 0 => (fnOut.files = <<>> /\ fnOut.nested = 0)
        /\ fnIn.max_depth >= 0 =>
             /\ ListedPaths = {r.path : r \in {q \in AllFiles :
                                   q.level <= fnIn.max_depth /\ ~q.linked}}
             /\ Len(fnOut.files) = Cardinality(ListedPaths)
             /\ fnOut.nested <= fnIn.max_depth + 1

C16_Witness ==
    /\ Listed
    /\ fnIn.max_depth >= 1
    /\ \E r \in AllFiles : ~r.linked /\ r.level = fnIn.max_depth + 1
    /\ \E r \in AllFiles : r.level = fnIn.max_depth /\ r.path \in ListedPaths
    /\ fnOut.nested = fnIn.max_depth + 1

ImageFile(r) == LowerExt(r.path[Len(r.path)][2]) \in IMAGE_EXTENSIONS

\* C17: no file below a symbolic-link subdirectory is listed, and
\* count_images counts exactly the image files reached through no symbolic
\* link (within the default depth), so those under a link add zero.
C17_SymlinksNotTraversed ==
    Listed =>
        /\ \A r \in AllFiles : r.linked => r.path \notin ListedPaths
        /\ fnOut.images = Cardinality({r \in AllFiles :
                              ~r.linked /\ r.level <= DEFAULT_MAX_DEPTH /\ ImageFile(r)})

C17_Witness ==
    /\ Listed
    /\ fnOut.images = 0
    /\ \E r \in AllFiles : r.linked /\ ImageFile(r)

====
